---- MODULE Spec2Model ----
(***************************************************************************)
(* Model of lune-std-process/src/options/mod.rs:                           *)
(*   - ProcessSpawnOptions::from_lua  (the option parser)                  *)
(*   - ProcessSpawnOptions::into_command (the command synthesizer)         *)
(*                                                                         *)
(* Strings are sequences of one-symbol strings.  A Lua string is a byte    *)
(* string: the symbol BAD stands for a byte that is not valid UTF-8, the   *)
(* symbol REPL for U+FFFD.  Option<T> is <<>> (None) or <<x>> (Some(x)).   *)
(* A PathBuf is the sequence of its components.                            *)
(***************************************************************************)
EXTENDS Naturals, Sequences, FiniteSets

VARIABLES
    value,          \* the LuaValue handed to from_lua
    family,         \* env::consts::FAMILY of the build
    home,           \* what UserDirs::new() yields: Option<PathBuf>
    fs,             \* the paths for which Path::exists() is true
    pc,             \* position inside from_lua / into_command
    this,           \* the ProcessSpawnOptions under construction
    envRest,        \* pairs of the env table not yet visited by the loop
    ret,            \* what from_lua returned
    examined,       \* the keys fetched with value.get(..), in order
    homeLookups,    \* number of UserDirs::new() calls made
    existsQueries,  \* the paths Path::exists() was asked about, in order
    call,           \* the (program, args) handed to into_command
    cmd             \* the Command built by into_command: Option<record>

vars == <<value, family, home, fs, pc, this, envRest, ret, examined,
          homeLookups, existsQueries, call, cmd>>

----------------------------------------------------------------------------
\* Bounds of the model

MaxCwdLen == 3
MaxShellLen == 2
MaxEnvPairs == 2
MaxArgs == 2

----------------------------------------------------------------------------
\* Symbols and Lua values

BAD == "BAD"
REPL == "REPL"

None == <<>>
Some(x) == <<x>>

Nil == [t |-> "nil", s |-> <<>>, n |-> 0, b |-> FALSE, p |-> {}]
Str(s) == [t |-> "string", s |-> s, n |-> 0, b |-> FALSE, p |-> {}]
Num(n) == [t |-> "number", s |-> <<>>, n |-> n, b |-> FALSE, p |-> {}]
Bool(b) == [t |-> "boolean", s |-> <<>>, n |-> 0, b |-> b, p |-> {}]
Table(p) == [t |-> "table", s |-> <<>>, n |-> 0, b |-> FALSE, p |-> p]

\* All strings over alphabet A of length at most n
StringsUpTo(A, n) == UNION {[1..k -> A] : k \in 0..n}

\* The spawn options table: its four fields as Lua values
OptionsTable(c, e, sh, st) ==
    [t |-> "table", cwd |-> c, env |-> e, shell |-> sh, stdio |-> st]
NilOptions == [t |-> "nil", cwd |-> Nil, env |-> Nil, shell |-> Nil, stdio |-> Nil]
NumberOptions == [t |-> "number", cwd |-> Nil, env |-> Nil, shell |-> Nil, stdio |-> Nil]

----------------------------------------------------------------------------
\* String conversions of mlua

\* LuaString::to_str(): Ok only for valid UTF-8
IsUtf8(s) == \A i \in 1..Len(s) : s[i] # BAD

\* A decoding that drops the invalid bytes instead of replacing them
ToStringDropInvalid(s) == SelectSeq(s, LAMBDA c : c # BAD)

\* LuaString::to_string_lossy(): every invalid byte becomes U+FFFD
ToStringLossy(s) == [i \in 1..Len(s) |-> IF s[i] = BAD THEN REPL ELSE s[i]]

Digits == <<"0", "1", "2", "3", "4", "5", "6", "7", "8", "9">>

RECURSIVE NumberToString(_)
\* Lua's number-to-string coercion, for the non-negative integers
NumberToString(n) ==
    IF n < 10 THEN <<Digits[n + 1]>>
    ELSE NumberToString(n \div 10) \o <<Digits[(n % 10) + 1]>>

\* String::from_lua, as used by e.pairs::<String, String>(): a string must be
\* valid UTF-8, a number is coerced to its decimal form, anything else fails
FromLuaString(v) ==
    CASE v.t = "string" -> IF IsUtf8(v.s) THEN Some(v.s) ELSE None
      [] v.t = "number" -> Some(NumberToString(v.n))
      [] OTHER -> None

----------------------------------------------------------------------------
\* Paths

RootDir == <<"/">>

RECURSIVE SplitComponents(_, _, _)
SplitComponents(s, cur, acc) ==
    IF s = <<>> THEN (IF cur = <<>> THEN acc ELSE Append(acc, cur))
    ELSE IF Head(s) = "/"
         THEN SplitComponents(Tail(s), <<>>, IF cur = <<>> THEN acc ELSE Append(acc, cur))
         ELSE SplitComponents(Tail(s), Append(cur, Head(s)), acc)

\* PathBuf::from(string): the path as its components; repeated and trailing
\* separators vanish, a leading separator is the root component
PathBufFrom(s) ==
    IF s # <<>> /\ Head(s) = "/"
    THEN <<RootDir>> \o SplitComponents(s, <<>>, <<>>)
    ELSE SplitComponents(s, <<>>, <<>>)

\* A prefix test on the characters of the first component, not on components
StripPrefixTildeChar(path) ==
    IF path # <<>> /\ Head(path) # <<>> /\ Head(Head(path)) = "~"
    THEN Some((IF Len(Head(path)) = 1 THEN <<>> ELSE <<Tail(Head(path))>>) \o Tail(path))
    ELSE None

\* cwd.strip_prefix("~"): Some(rest) iff the FIRST COMPONENT is exactly "~"
StripPrefixTilde(path) ==
    IF path # <<>> /\ Head(path) = <<"~">> THEN Some(Tail(path)) ELSE None

\* home_dir().join(stripped)
Join(base, rel) == IF rel # <<>> /\ Head(rel) = RootDir THEN rel ELSE base \o rel

\* No existence check at all
ExistsAlways(path) == TRUE

\* cwd.exists()
Exists(path) == path \in fs

HomePath == <<RootDir, <<"h">>>>

----------------------------------------------------------------------------
\* Errors and results

Error(kind, field) == [kind |-> kind, field |-> field]

\* A default record that already names a shell
DefaultOptionsWithShell ==
    [cwd |-> None, envs |-> {}, shell |-> Some(<<"/", "b", "i", "n", "/", "s", "h">>),
     stdio |-> None]

DefaultOptions == [cwd |-> None, envs |-> {}, shell |-> None, stdio |-> None]

Pending == [state |-> "pending", opts |-> None, err |-> None]
Ok(o) == [state |-> "ok", opts |-> Some(o), err |-> None]
Err(e) == [state |-> "err", opts |-> None, err |-> Some(e)]

----------------------------------------------------------------------------
\* from_lua: the decode of each field

\* Outcome of decoding one field: an error, or the field's new value, with the
\* home-directory lookups and existence queries the decode made
Outcome(e, v, lookups, queries) ==
    [err |-> e, val |-> v, lookups |-> lookups, queries |-> queries]

\* The cwd given as a string: to_str, tilde substitution, existence check
CwdFromString(s) ==
    IF ~IsUtf8(s) THEN Outcome(Some(Error("Utf8Error", "none")), None, 0, <<>>)
    ELSE LET path == PathBufFrom(s)
             stripped == StripPrefixTilde(path)
         IN  IF stripped # None /\ home = None
             THEN Outcome(Some(Error("HomeDirectoryUnavailable", "cwd")), None, 1, <<>>)
             ELSE LET resolved == IF stripped # None THEN Join(home[1], stripped[1])
                                  ELSE path
                      lookups == IF stripped # None THEN 1 ELSE 0
                  IN  IF ~Exists(resolved)
                      THEN Outcome(Some(Error("PathNotFound", "cwd")), None,
                                   lookups, <<resolved>>)
                      ELSE Outcome(None, Some(resolved), lookups, <<resolved>>)

\* match value.get("cwd")
CwdDecode(v) ==
    CASE v.t = "nil" -> Outcome(None, None, 0, <<>>)
      [] v.t = "string" -> CwdFromString(v.s)
      [] OTHER -> Outcome(Some(Error("InvalidFieldType", "cwd")), None, 0, <<>>)

\* /bin/sh wherever the family is not windows
DefaultShellUnixElse(fam) ==
    IF fam = "windows" THEN Some(<<"p", "o", "w", "e", "r", "s", "h", "e", "l", "l">>)
    ELSE Some(<<"/", "b", "i", "n", "/", "s", "h">>)

\* The platform default shell for shell = true
DefaultShell(fam) ==
    CASE fam = "unix" -> Some(<<"/", "b", "i", "n", "/", "s", "h">>)
      [] fam = "windows" -> Some(<<"p", "o", "w", "e", "r", "s", "h", "e", "l", "l">>)
      [] OTHER -> None

\* match value.get("shell")
ShellDecode(v, fam) ==
    CASE v.t = "nil" -> Outcome(None, None, 0, <<>>)
      [] v.t = "string" -> Outcome(None, Some(ToStringLossy(v.s)), 0, <<>>)
      [] v.t = "boolean" /\ v.b -> Outcome(None, DefaultShell(fam), 0, <<>>)
      [] OTHER -> Outcome(Some(Error("InvalidFieldType", "shell")), None, 0, <<>>)

\* ProcessSpawnOptionsStdio::from_lua (mod stdio): absent is the default, a
\* string is carried through as given, anything else is rejected
StdioDecode(v) ==
    CASE v.t = "nil" -> Outcome(None, None, 0, <<>>)
      [] v.t = "string" -> Outcome(None, Some(v.s), 0, <<>>)
      [] OTHER -> Outcome(Some(Error("InvalidStdio", "stdio")), None, 0, <<>>)

\* this.envs.insert(k, v)
EnvInsert(envs, k, v) == {e \in envs : e[1] # k} \cup {<<k, v>>}

\* The shell decoded before the environment
AfterFieldShellFirst(f) ==
    CASE f = "cwd" -> "shell"
      [] f = "shell" -> "env"
      [] f = "env" -> "stdio"
      [] f = "stdio" -> "returned"

\* The order in which from_lua decodes the fields: where it goes after each
AfterField(f) ==
    CASE f = "cwd" -> "env"
      [] f = "env" -> "shell"
      [] f = "shell" -> "stdio"
      [] f = "stdio" -> "returned"

----------------------------------------------------------------------------
\* from_lua, step by step

Fail(e) ==
    /\ ret' = Err(e)
    /\ pc' = "returned"

\* lines 30-44: match on the value itself
MatchValue ==
    /\ pc = "from_lua"
    /\ CASE value.t = "nil" -> ret' = Ok(this) /\ pc' = "returned"
         [] value.t = "table" -> ret' = ret /\ pc' = "cwd"
         [] OTHER -> Fail(Error("InvalidFieldType", "options"))
    /\ UNCHANGED <<value, family, home, fs, this, envRest, examined,
                   homeLookups, existsQueries, call, cmd>>

\* lines 52-77
GetCwd ==
    /\ pc = "cwd"
    /\ examined' = Append(examined, "cwd")
    /\ LET o == CwdDecode(value.cwd)
       IN  /\ homeLookups' = homeLookups + o.lookups
           /\ existsQueries' = existsQueries \o o.queries
           /\ IF o.err # None
              THEN Fail(o.err[1]) /\ this' = this
              ELSE /\ this' = [this EXCEPT !.cwd = o.val]
                   /\ pc' = AfterField("cwd")
                   /\ ret' = ret
    /\ UNCHANGED <<value, family, home, fs, envRest, call, cmd>>

\* lines 82-84, 90-95: match value.get("env")
GetEnv ==
    /\ pc = "env"
    /\ examined' = Append(examined, "env")
    /\ CASE value.env.t = "nil" ->
                pc' = AfterField("env") /\ ret' = ret /\ envRest' = envRest
         [] value.env.t = "table" ->
                pc' = "env_loop" /\ ret' = ret /\ envRest' = value.env.p
         [] OTHER ->
                Fail(Error("InvalidFieldType", "env")) /\ envRest' = envRest
    /\ UNCHANGED <<value, family, home, fs, this, homeLookups, existsQueries,
                   call, cmd>>

\* lines 85-88: one turn of the loop over e.pairs::<String, String>(), in
\* whatever order the table yields its pairs
EnvPair ==
    /\ pc = "env_loop"
    /\ \E pair \in envRest :
          LET k == FromLuaString(pair[1])
              v == FromLuaString(pair[2])
          IN  IF k = None \/ v = None
              THEN /\ Fail(Error("InvalidEnvironmentEntry", "env"))
                   /\ UNCHANGED <<this, envRest>>
              ELSE /\ this' = [this EXCEPT !.envs = EnvInsert(@, k[1], v[1])]
                   /\ envRest' = envRest \ {pair}
                   /\ UNCHANGED <<pc, ret>>
    /\ UNCHANGED <<value, family, home, fs, examined, homeLookups,
                   existsQueries, call, cmd>>

\* line 88: the loop ends when the pairs are exhausted
EnvEnd ==
    /\ pc = "env_loop"
    /\ envRest = {}
    /\ pc' = AfterField("env")
    /\ UNCHANGED <<value, family, home, fs, this, envRest, ret, examined,
                   homeLookups, existsQueries, call, cmd>>

\* lines 104-120
GetShell ==
    /\ pc = "shell"
    /\ examined' = Append(examined, "shell")
    /\ LET o == ShellDecode(value.shell, family)
       IN  IF o.err # None
           THEN Fail(o.err[1]) /\ this' = this
           ELSE /\ this' = [this EXCEPT !.shell = o.val]
                /\ pc' = AfterField("shell")
                /\ ret' = ret
    /\ UNCHANGED <<value, family, home, fs, envRest, homeLookups,
                   existsQueries, call, cmd>>

\* lines 127-129
GetStdio ==
    /\ pc = "stdio"
    /\ examined' = Append(examined, "stdio")
    /\ LET o == StdioDecode(value.stdio)
       IN  IF o.err # None
           THEN Fail(o.err[1]) /\ this' = this
           ELSE /\ this' = [this EXCEPT !.stdio = o.val]
                /\ pc' = AfterField("stdio")
                /\ ret' = Ok(this')
    /\ UNCHANGED <<value, family, home, fs, envRest, homeLookups,
                   existsQueries, call, cmd>>

----------------------------------------------------------------------------
\* into_command

RECURSIVE ShellCommandNoSpace(_, _)
\* The program and the arguments run together, no separator
ShellCommandNoSpace(program, args) ==
    IF args = <<>> THEN program
    ELSE ShellCommandNoSpace(program \o Head(args), Tail(args))

RECURSIVE ShellCommand(_, _)
\* lines 140-144: the program, then each argument preceded by one space
ShellCommand(program, args) ==
    IF args = <<>> THEN program
    ELSE ShellCommand(program \o <<" ">> \o Head(args), Tail(args))

\* The arguments wrapped for a shell whether or not one is set
CommandArgsAlwaysWrapped(opts, program, args) ==
    << <<"-", "c">>, program \o (IF args = <<>> THEN <<>> ELSE <<" ">> \o Head(args)) >>

\* lines 139, 145: the argument list handed to Command::args
CommandArgs(opts, program, args) ==
    IF opts.shell # None THEN << <<"-", "c">>, ShellCommand(program, args) >>
    ELSE args

\* lines 139, 146: the program handed to Command::new
CommandProgram(opts, program) ==
    IF opts.shell # None THEN opts.shell[1] ELSE program

\* lines 154-156: cmd.current_dir
CommandCurrentDir(opts) == opts.cwd

\* cmd.envs called with an empty map as well
CommandEnvsAlways(opts) == Some(opts.envs)

\* lines 157-159: cmd.envs, called only for a non-empty map
CommandEnvs(opts) == IF opts.envs # {} THEN Some(opts.envs) ELSE None

Command(opts, program, args) ==
    [program |-> CommandProgram(opts, program),
     args |-> CommandArgs(opts, program, args),
     current_dir |-> CommandCurrentDir(opts),
     envs |-> CommandEnvs(opts)]

\* The programs and arguments into_command is tried on
Programs == {<<"e", "c", "h", "o">>, <<"e", " ">>}
ArgStrings == {<<"a">>, <<"b">>, <<" ">>, <<>>}
ArgLists == StringsUpTo(ArgStrings, MaxArgs)

IntoCommand ==
    /\ pc = "returned"
    /\ ret.state = "ok"
    /\ \E program \in Programs, args \in ArgLists :
          /\ call' = Some([program |-> program, args |-> args])
          /\ cmd' = Some(Command(ret.opts[1], program, args))
    /\ pc' = "done"
    /\ UNCHANGED <<value, family, home, fs, this, envRest, ret, examined,
                   homeLookups, existsQueries>>

----------------------------------------------------------------------------
\* The inputs

CwdAlphabet == {"~", "/", "x", BAD}
ShellAlphabet == {"s", BAD}

KeyA == Str(<<"A">>)
KeyB == Str(<<"B">>)
EnvKeys == {KeyA, KeyB, Num(1)}
EnvVals == {Str(<<"1">>), Num(1), Bool(TRUE)}

\* Lua tables of at most MaxEnvPairs pairs; a table holds a key once
EnvTables ==
    {T \in SUBSET (EnvKeys \X EnvVals) :
        /\ Cardinality(T) <= MaxEnvPairs
        /\ \A a \in T, b \in T : a[1] = b[1] => a = b}

RichCwd == {Nil, Num(1)} \cup {Str(s) : s \in StringsUpTo(CwdAlphabet, MaxCwdLen)}
RichEnv == {Nil, Num(1)} \cup {Table(T) : T \in EnvTables}
RichShell == {Nil, Bool(TRUE), Bool(FALSE), Num(1)}
                \cup {Str(s) : s \in StringsUpTo(ShellAlphabet, MaxShellLen)}

GoodEnv == Table({<<KeyA, Str(<<"1">>)>>})
GoodShell == Str(<<"s">>)

SmallCwd == {Nil, Str(<<"x">>), Num(1)}
SmallEnv == {Nil, GoodEnv, Table({<<KeyA, Bool(TRUE)>>})}
SmallShell == {Nil, GoodShell, Bool(FALSE)}
SmallStdio == {Nil, Str(<<"i">>), Num(1)}

Families == {"unix", "windows", "wasm"}

\* The paths that may exist: ./x, ./~x, <home>/x and ./~/x
FsCandidates ==
    { << <<"x">> >>, << <<"~", "x">> >>, HomePath \o << <<"x">> >>,
      << <<"~">>, <<"x">> >> }

\* The configurations in which cwd ranges over all its values
CwdConfigs ==
    {OptionsTable(c, e, sh, Nil) :
        c \in RichCwd, e \in {Nil, GoodEnv}, sh \in {Nil, GoodShell}}

\* The configurations in which env or shell ranges over all its values, and
\* those in which the four fields fail in every combination
OtherConfigs ==
    {NilOptions, NumberOptions}
    \cup {OptionsTable(Nil, e, sh, Nil) : e \in RichEnv, sh \in {Nil, GoodShell}}
    \cup {OptionsTable(Nil, e, sh, Nil) : e \in {Nil, GoodEnv}, sh \in RichShell}
    \cup {OptionsTable(c, e, sh, st) :
            c \in SmallCwd, e \in SmallEnv, sh \in SmallShell, st \in SmallStdio}

Init ==
    /\ \/ /\ value \in CwdConfigs
          /\ family = "unix"
          /\ home \in {None, Some(HomePath)}
          /\ fs \in SUBSET FsCandidates
       \/ /\ value \in OtherConfigs
          /\ family \in Families
          /\ home \in {None, Some(HomePath)}
          /\ fs \in {{}, FsCandidates}
    /\ pc = "from_lua"
    /\ this = DefaultOptions
    /\ envRest = {}
    /\ ret = Pending
    /\ examined = <<>>
    /\ homeLookups = 0
    /\ existsQueries = <<>>
    /\ call = None
    /\ cmd = None

Next ==
    \/ MatchValue
    \/ GetCwd
    \/ GetEnv
    \/ EnvPair
    \/ EnvEnd
    \/ GetShell
    \/ GetStdio
    \/ IntoCommand

Spec == Init /\ [][Next]_vars

----------------------------------------------------------------------------
\* Vocabulary of the properties

IsTable == value.t = "table"
Returned == pc \in {"returned", "done"}
ReturnedOk == ret.state = "ok"
ReturnedErr == ret.state = "err"
Opts == ret.opts[1]
Called == cmd # None
TheCmd == cmd[1]
TheCall == call[1]

\* from_lua failed with this kind of error on this field
FailedWith(kind, field) == ReturnedErr /\ ret.err = Some(Error(kind, field))

Fetched(f) == \E i \in 1..Len(examined) : examined[i] = f

\* The decode of a field is over: its key was fetched and pc has left it
CwdDone == IsTable /\ Fetched("cwd")
EnvDone == IsTable /\ Fetched("env") /\ pc # "env_loop"
ShellDone == IsTable /\ Fetched("shell")

RECURSIVE SpacedFrom(_, _)
\* " " args[i] " " args[i+1] ... to the last argument
SpacedFrom(args, i) ==
    IF i > Len(args) THEN <<>> ELSE <<" ">> \o args[i] \o SpacedFrom(args, i + 1)

----------------------------------------------------------------------------

\* C1: with a shell set, into_command yields the shell as the program and
\* exactly the two arguments "-c" and the program followed by every argument,
\* each preceded by exactly one space, nothing quoted or escaped.
C1_ShellWraps ==
    (Called /\ Opts.shell # None) =>
        /\ TheCmd.program = Opts.shell[1]
        /\ Len(TheCmd.args) = 2
        /\ TheCmd.args[1] = <<"-", "c">>
        /\ TheCmd.args[2] = TheCall.program \o SpacedFrom(TheCall.args, 1)

\* echo a b under shell = true on unix gives /bin/sh -c "echo a b"
C1_Witness ==
    /\ Called
    /\ TheCall = [program |-> <<"e", "c", "h", "o">>, args |-> << <<"a">>, <<"b">> >>]
    /\ TheCmd.program = <<"/", "b", "i", "n", "/", "s", "h">>
    /\ TheCmd.args = << <<"-", "c">>, <<"e", "c", "h", "o", " ", "a", " ", "b">> >>

\* C2: with no shell set, into_command passes the program and the arguments
\* through unchanged, same order and number.
C2_NoShellPassThrough ==
    (Called /\ Opts.shell = None) =>
        /\ TheCmd.program = TheCall.program
        /\ TheCmd.args = TheCall.args

C2_Witness ==
    /\ Called
    /\ Opts.shell = None
    /\ TheCall.args = << <<"a">>, <<"b">> >>
    /\ TheCmd.args = << <<"a">>, <<"b">> >>

EnvAllStrings == \A pair \in value.env.p : pair[1].t = "string" /\ pair[2].t = "string"

\* C3: an env table of string keys and string values yields exactly those
\* entries; an env table with any non-string key or value fails with a type
\* error and no options are returned.
C3_EnvStringsOnly ==
    (EnvDone /\ value.env.t = "table") =>
        IF EnvAllStrings
        THEN /\ ~(ReturnedErr /\ ret.err[1].field = "env")
             /\ this.envs = {<<pair[1].s, pair[2].s>> : pair \in value.env.p}
        ELSE /\ FailedWith("InvalidEnvironmentEntry", "env")
             /\ ret.opts = None

\* C4: every successfully returned options record has the shell unset or a
\* non-empty string.
C4_ShellNonEmpty ==
    ReturnedOk => (Opts.shell = None \/ Opts.shell[1] # <<>>)

\* C4 as amended: the shell is unset or non-empty for every value of the
\* "shell" field but the empty string, which yields the empty shell.
C4_ShellEmptyOnlyFromEmpty ==
    ReturnedOk =>
        IF IsTable /\ value.shell = Str(<<>>)
        THEN Opts.shell = Some(<<>>)
        ELSE (Opts.shell = None \/ Opts.shell[1] # <<>>)

C4_Witness ==
    /\ ReturnedOk
    /\ IsTable
    /\ value.shell = Str(<<>>)
    /\ Opts.shell = Some(<<>>)

BeginsWithTilde(s) == s # <<>> /\ s[1] = "~"
UnderHome(path) ==
    /\ Len(path) >= Len(HomePath)
    /\ SubSeq(path, 1, Len(HomePath)) = HomePath

FirstComponentIsTilde(s) ==
    /\ \A i \in 1..Len(s) : s[i] # BAD
    /\ s # <<>>
    /\ s[1] = "~"
    /\ (Len(s) = 1 \/ s[2] = "/")

TildePath(s) == PathBufFrom(s) # <<>> /\ Head(PathBufFrom(s)) = <<"~">>
Substituted(s) ==
    IF TildePath(s) THEN home[1] \o Tail(PathBufFrom(s)) ELSE PathBufFrom(s)

\* C6: a cwd string whose (tilde-substituted) path exists parses to that
\* working directory; one whose path does not exist fails with PathNotFound;
\* the working directory is never a path that does not exist.
C6_CwdMustExist ==
    /\ (CwdDone /\ value.cwd.t = "string" /\ ~(TildePath(value.cwd.s) /\ home = None)) =>
          IF Substituted(value.cwd.s) \in fs
          THEN this.cwd = Some(Substituted(value.cwd.s))
          ELSE FailedWith("PathNotFound", "cwd")
    /\ (ReturnedOk /\ Opts.cwd # None) => Opts.cwd[1] \in fs

\* C6 as amended: the same for every cwd string that is valid UTF-8; a cwd
\* string that is not valid UTF-8 fails with a conversion error before any
\* existence check.
C6_Utf8CwdMustExist ==
    /\ (CwdDone /\ value.cwd.t = "string" /\ ~(TildePath(value.cwd.s) /\ home = None)) =>
          IF \E i \in 1..Len(value.cwd.s) : value.cwd.s[i] = BAD
          THEN FailedWith("Utf8Error", "none") /\ existsQueries = <<>>
          ELSE IF Substituted(value.cwd.s) \in fs
               THEN this.cwd = Some(Substituted(value.cwd.s))
               ELSE FailedWith("PathNotFound", "cwd")
    /\ (ReturnedOk /\ Opts.cwd # None) => Opts.cwd[1] \in fs

\* x does not exist while ~x does: PathNotFound
C6_Witness ==
    /\ value.cwd = Str(<<"x">>)
    /\ << <<"~", "x">> >> \in fs
    /\ FailedWith("PathNotFound", "cwd")
    /\ existsQueries = << << <<"x">> >> >>

ShellError == FailedWith("InvalidFieldType", "shell")

LossyOf(s, r) ==
    /\ Len(r) = Len(s)
    /\ \A i \in 1..Len(s) : r[i] = (IF s[i] = BAD THEN REPL ELSE s[i])

C8_NilIsDefault ==
    (value.t = "nil" /\ pc # "from_lua") =>
        /\ ret = [state |-> "ok",
                  opts |-> << [cwd |-> <<>>, envs |-> {}, shell |-> <<>>, stdio |-> <<>>] >>,
                  err |-> <<>>]
        /\ homeLookups = 0
        /\ existsQueries = <<>>

C8_Witness ==
    /\ value.t = "nil"
    /\ pc = "returned"
    /\ ReturnedOk
    /\ home # None
    /\ fs # {}

FieldOrder == <<"cwd", "env", "shell", "stdio">>
EnvEntryFails(pair) == FromLuaString(pair[1]) = None \/ FromLuaString(pair[2]) = None
ExpectedError(f) ==
    CASE f = "cwd" -> CwdDecode(value.cwd).err
      [] f = "env" ->
            (CASE value.env.t = "nil" -> None
               [] value.env.t = "table" ->
                     IF \E pair \in value.env.p : EnvEntryFails(pair)
                     THEN Some(Error("InvalidEnvironmentEntry", "env"))
                     ELSE None
               [] OTHER -> Some(Error("InvalidFieldType", "env")))
      [] f = "shell" -> ShellDecode(value.shell, family).err
      [] f = "stdio" -> StdioDecode(value.stdio).err
Failing == {i \in 1..Len(FieldOrder) : ExpectedError(FieldOrder[i]) # None}
FirstFailing == CHOOSE i \in Failing : \A j \in Failing : i <= j

\* C9: the fields are decoded in the order cwd, env, shell, stdio; the error
\* returned is that of the first field that fails in this order, no later
\* field is examined and no options are returned with an error.
C9_FirstFailureAborts ==
    /\ examined = SubSeq(FieldOrder, 1, Len(examined))
    /\ (IsTable /\ Returned) =>
          IF Failing = {}
          THEN ReturnedOk /\ examined = FieldOrder
          ELSE /\ ReturnedErr
               /\ ret.err = ExpectedError(FieldOrder[FirstFailing])
               /\ ret.opts = None
               /\ examined = SubSeq(FieldOrder, 1, FirstFailing)

\* an invalid cwd and an invalid shell: the cwd error, shell never fetched
C9_Witness ==
    /\ value.cwd = Num(1)
    /\ value.shell = Bool(FALSE)
    /\ FailedWith("InvalidFieldType", "cwd")
    /\ examined = <<"cwd">>

\* C10: the command's working directory is set iff the options have one, to
\* that path, and its environment overlay is set iff the options' environment
\* is non-empty, to exactly those entries, with or without a shell.
C10_CwdAndEnvCarried ==
    Called =>
        /\ TheCmd.current_dir = Opts.cwd
        /\ Opts.envs = {} => TheCmd.envs = None
        /\ Opts.envs # {} => TheCmd.envs = Some(Opts.envs)

C10_Witness ==
    /\ Called
    /\ Opts.shell # None
    /\ Opts.cwd # None
    /\ Opts.envs # {}
    /\ TheCmd.current_dir = Opts.cwd
    /\ TheCmd.envs = Some(Opts.envs)

====
